---- MODULE Spec2Model ----
(***************************************************************************)
(* The three tutorial notebooks of n2v_examples.  A run takes one of them  *)
(* and executes its code cells top to bottom in a fresh kernel:            *)
(*   "pyscf"  Wu-Yang inversion of Be with the PySCF engine                *)
(*            (src/unnamed/part_000)                                       *)
(*   "psi4"   Wu-Yang inversion of Be with the Psi4 engine                 *)
(*            (src/Psi4_Examples/Wu_Yang/Be_Example.ipynb, lines 1-228)    *)
(*   "mrks"   mRKS inversion of FC2Cl with the Psi4 engine                 *)
(*            (src/Psi4_Examples/Wu_Yang/Be_Example.ipynb, lines 230-380)  *)
(* A code cell is modelled by the names it reads, the names it binds and   *)
(* the step of the workflow it belongs to.  The inversion itself is a call *)
(* into the n2v package, whose code is not part of the repository: the     *)
(* model knows of it only what the notebooks show: the arguments the call  *)
(* is handed and the output the notebook records for it.  Where a notebook *)
(* records no output of the call, the call either returns or raises.       *)
(***************************************************************************)
EXTENDS Integers, Sequences, FiniteSets, TLC

VARIABLES pc, ns, status, made, consumed, history, called, output,
          nelec, val, args

vars == <<pc, ns, status, made, consumed, history, called, output,
          nelec, val, args>>

\* Points of the plotting grid, largest sampled value of a potential, and
\* largest number of electrons of one spin.
NPts == 2

MaxV == 1

MaxSpin == 2

Notebooks == {"pyscf", "psi4", "mrks"}

WuYangNotebooks == {"pyscf", "psi4"}

\* The steps of the workflow; a cell of imports, or an empty cell, is of none.
Steps == {"reference", "reconstruction", "reporting"}

Stages == Steps \cup {"none"}

Cell(stage, reads, writes) == [stage |-> stage, reads |-> reads, writes |-> writes]

(***************************************************************************)
(* Exact fractions, for the numbers the notebooks print and compute.       *)
(***************************************************************************)
Rat(n, d) == [num |-> n, den |-> d]

RAdd(a, b) == Rat(a.num * b.den + b.num * a.den, a.den * b.den)

RSub(a, b) == Rat(a.num * b.den - b.num * a.den, a.den * b.den)

RMul(a, b) == Rat(a.num * b.num, a.den * b.den)

RDiv(a, n) == Rat(a.num, a.den * n)

\* Denominators are positive throughout.
REq(a, b) == a.num * b.den = b.num * a.den

RLess(a, b) == a.num * b.den < b.num * a.den

(***************************************************************************)
(* The invert calls: the method, the keyword arguments, and the line the   *)
(* notebook records as the call's output.                                  *)
(***************************************************************************)
Call(method, kwargs) == [method |-> method, kwargs |-> kwargs]

NoCall == Call("none", {})

Output(stdout, nit, grad) == [stdout |-> stdout, nit |-> nit, grad |-> grad]

NoOutput == Output("none", 0, Rat(0, 1))

PyscfCall == Call("WuYang", {<<"guide_components", "fermi_amaldi">>})

Psi4CallWithDamping ==
    Call("WuYang", {<<"guide_components", "fermi_amaldi">>, <<"frac_old", "0.8">>})

Psi4Call == Call("WuYang", {<<"guide_components", "fermi_amaldi">>})

MrksCall ==
    Call("mRKS", {<<"vxc_grid", "grid">>, <<"opt_max_iter", "30">>,
                  <<"frac_old", "0.8">>, <<"init", "scan">>,
                  <<"sing", "(1e-7, 1e-4, 1e-7, 1e-4)">>})

InvertCall(nb) ==
    CASE nb = "pyscf" -> PyscfCall
      [] nb = "psi4"  -> Psi4Call
      [] nb = "mrks"  -> MrksCall

PyscfRecordedSlow == Output("Optimization Successful", 12, Rat(617, 1000000))

\* "Optimization Successful within 2 iterations! |grad|=6.17e-04"
PyscfRecorded == Output("Optimization Successful", 2, Rat(617, 1000000))

\* "Optimization Successful within 2 iterations! |grad|=6.10e-04"
Psi4Recorded == Output("Optimization Successful", 2, Rat(610, 1000000))

\* The mRKS notebook is stored without outputs.
MrksRecorded == NoOutput

Recorded(nb) ==
    CASE nb = "pyscf" -> PyscfRecorded
      [] nb = "psi4"  -> Psi4Recorded
      [] nb = "mrks"  -> MrksRecorded

\* What the reference cell sets the system up with: the atoms, the orbital
\* basis (with its cardinal number) and the potential basis.
System(atoms, basis, pbs) == [atoms |-> atoms, basis |-> basis, pbs |-> pbs]

PyscfSystem == System(<<"Be">>, "aug-cc-pvtz", "aug-cc-pvqz")

Psi4System == System(<<"Be">>, "aug-cc-pvtz", "aug-cc-pvqz")

\* from_wfn(wfn) is given no pbs.
MrksSystem == System(<<"F", "C", "C", "Cl">>, "cc-pcvdz", "none")

SystemOf(nb) ==
    CASE nb = "pyscf" -> PyscfSystem
      [] nb = "psi4"  -> Psi4System
      [] nb = "mrks"  -> MrksSystem

\* The cardinal number of a correlation-consistent basis: D, T, Q.
Zeta(basis) ==
    CASE basis \in {"cc-pcvdz"}    -> 2
      [] basis \in {"aug-cc-pvtz"} -> 3
      [] basis \in {"aug-cc-pvqz"} -> 4
      [] OTHER                     -> 0

(***************************************************************************)
(* src/unnamed/part_000: Wu-Yang with PySCF.                               *)
(***************************************************************************)
PyscfImports == Cell("none", {}, {"plt", "np", "gto", "n2v", "mpl"})

\* The reference cell without its last line, inv.et = [ea, eb].
PyscfTargetNoEnergies ==
    Cell("reference", {"gto", "n2v"},
         {"mol", "mf", "da", "db", "ca", "cb", "ea", "eb",
          "inv", "inv.Dt", "inv.ct"})

PyscfTarget ==
    Cell("reference", {"gto", "n2v"},
         {"mol", "mf", "da", "db", "ca", "cb", "ea", "eb",
          "inv", "inv.Dt", "inv.ct", "inv.et"})

PyscfInvert == Cell("reconstruction", {"inv"}, {"inv.v_pbs"})

PyscfBuildGrid == Cell("reporting", {"inv"}, {"rectangular", "x"})

PyscfHartree == Cell("reporting", {"inv", "inv.Dt", "rectangular"}, {"vH", "vFA"})

PyscfVxc ==
    Cell("reporting", {"inv", "inv.v_pbs", "rectangular", "da", "db", "vFA", "vH"},
         {"vrest", "hartree", "fa", "vxc"})

PyscfPlot == Cell("reporting", {"plt", "x", "vxc"}, {"fig", "ax"})

PyscfCells ==
    <<PyscfImports, PyscfTarget, PyscfInvert, PyscfBuildGrid, PyscfHartree,
      PyscfVxc, PyscfPlot>>

(***************************************************************************)
(* Be_Example.ipynb, first notebook: Wu-Yang with Psi4.                    *)
(***************************************************************************)
Psi4Imports == Cell("none", {}, {"psi4", "plt", "np", "n2v", "mpl"})

Psi4Target == Cell("reference", {"psi4", "n2v"}, {"Be", "wfn", "inv", "inv.Dt"})

Psi4Invert == Cell("reconstruction", {"inv"}, {"inv.v_pbs"})

Psi4Grid == Cell("reporting", {"np", "inv"}, {"x", "y", "z", "grid", "grid2"})

Psi4Hartree == Cell("reporting", {"inv", "inv.Dt", "grid"}, {"vH", "vFA"})

Psi4Vxc == Cell("reporting", {"inv", "inv.v_pbs", "grid", "vFA", "vH"}, {"vrest", "vxc"})

Psi4Plot == Cell("reporting", {"plt", "x", "vxc"}, {"fig", "ax"})

Psi4CellsReordered ==
    <<Psi4Imports, Psi4Target, Psi4Grid,
      Cell("reconstruction", {"inv", "grid"}, {"inv.v_pbs"}),
      Psi4Hartree, Psi4Vxc, Psi4Plot>>

Psi4Cells ==
    <<Psi4Imports, Psi4Target, Psi4Invert, Psi4Grid, Psi4Hartree, Psi4Vxc, Psi4Plot>>

(***************************************************************************)
(* Be_Example.ipynb, second notebook: mRKS with Psi4.                      *)
(***************************************************************************)
MrksImports == Cell("none", {}, {"psi4", "plt", "np", "n2v", "mpl"})

MrksTarget == Cell("reference", {"psi4", "n2v"}, {"FC2Cl", "wfn", "inverter"})

MrksGrid == Cell("reporting", {"np", "inverter"}, {"x", "y", "z", "grid", "shape"})

MrksInvert == Cell("reconstruction", {"inverter", "grid"}, {"inverter.grid.vxc"})

MrksPlot == Cell("reporting", {"plt", "x", "inverter.grid.vxc"}, {"fig", "ax"})

MrksEmpty == Cell("none", {}, {})

MrksCells == <<MrksImports, MrksTarget, MrksGrid, MrksInvert, MrksPlot, MrksEmpty>>

Cells(nb) ==
    CASE nb = "pyscf" -> PyscfCells
      [] nb = "psi4"  -> Psi4Cells
      [] nb = "mrks"  -> MrksCells

Names == UNION {UNION {Cells(nb)[i].writes : i \in DOMAIN Cells(nb)} : nb \in Notebooks}

(***************************************************************************)
(* The potentials the Wu-Yang notebooks sample on their grid, one value    *)
(* per grid point.                                                         *)
(***************************************************************************)
Points == 1..NPts

ValueNames == {"vH", "vFA", "vrest", "vxc"}

NoValues == [n \in ValueNames |-> <<>>]

\* vFA = (1-1/(inv.nalpha + inv.nbeta)) * vH
FermiAmaldi(nalpha, nbeta, vH) ==
    [g \in DOMAIN vH |->
        RMul(RSub(Rat(1, 1), RDiv(Rat(1, 1), nalpha + nbeta)), vH[g])]

\* vxc = vFA + vrest - vH
VxcNoGuide(vFA, vrest, vH) == [g \in DOMAIN vH |-> RSub(vrest[g], vH[g])]

Vxc(vFA, vrest, vH) == [g \in DOMAIN vH |-> RSub(RAdd(vFA[g], vrest[g]), vH[g])]

\* What each sampled potential is evaluated from.
PyscfExprs ==
    [vH      |-> {"inv.Dt", "rectangular"},
     vFA     |-> {"inv", "vH"},
     vrest   |-> {"inv.v_pbs", "rectangular"},
     hartree |-> {"da", "db", "rectangular"},
     fa      |-> {"inv", "hartree"},
     vxc     |-> {"vFA", "vrest", "vH"}]

Psi4Exprs ==
    [vH    |-> {"inv.Dt", "grid"},
     vFA   |-> {"inv", "vH"},
     vrest |-> {"inv.v_pbs", "grid", "inv"},
     vxc   |-> {"vFA", "vrest", "vH"}]

MrksExprs == [fig |-> {"plt"}, ax |-> {"plt", "x", "inverter.grid.vxc"}]

Exprs(nb) ==
    CASE nb = "pyscf" -> PyscfExprs
      [] nb = "psi4"  -> Psi4Exprs
      [] nb = "mrks"  -> MrksExprs

\* The values a cell computes.  The electron numbers come with the
\* inverter, the Hartree potential and the potential on the basis set come
\* from the engine; vFA and vxc are computed in the notebook.
Evaluate(nb, c) ==
    /\ args' = [args EXCEPT ![nb] =
                  @ \cup UNION {{<<n, a>> : a \in Exprs(nb)[n]} :
                                   n \in c.writes \cap DOMAIN Exprs(nb)}]
    /\ IF "inv" \in c.writes
         THEN /\ \E nalpha \in 1..MaxSpin, nbeta \in 1..MaxSpin :
                    nelec' = [nelec EXCEPT ![nb] = <<nalpha, nbeta>>]
              /\ UNCHANGED val
         ELSE IF "vH" \in c.writes
         THEN /\ \E h \in [Points -> 0..MaxV] :
                    LET vH == [g \in Points |-> Rat(h[g], 1)] IN
                    val' = [val EXCEPT ![nb]["vH"] = vH,
                                       ![nb]["vFA"] =
                                           FermiAmaldi(nelec[nb][1], nelec[nb][2], vH)]
              /\ UNCHANGED nelec
         ELSE IF "vxc" \in c.writes
         THEN /\ \E r \in [Points -> (-MaxV)..MaxV] :
                    LET vrest == [g \in Points |-> Rat(r[g], 1)] IN
                    val' = [val EXCEPT ![nb]["vrest"] = vrest,
                                       ![nb]["vxc"] =
                                           Vxc(val[nb]["vFA"], vrest, val[nb]["vH"])]
              /\ UNCHANGED nelec
         ELSE UNCHANGED <<nelec, val>>

(***************************************************************************)
(* The kernel.                                                             *)
(***************************************************************************)
\* A run is of one notebook: no cell of another one has been executed.
Alone(nb) == \A other \in Notebooks \ {nb} : pc[other] = 1

Pending(nb) == Alone(nb) /\ status[nb] = "ok" /\ pc[nb] <= Len(Cells(nb))

Current(nb) == Cells(nb)[pc[nb]]

Bind(nb, c) ==
    /\ ns' = [ns EXCEPT ![nb] = @ \cup c.writes]
    /\ made' = [made EXCEPT ![nb] = @ \cup {<<n, c.stage>> : n \in c.writes}]
    /\ pc' = [pc EXCEPT ![nb] = @ + 1]

Init ==
    /\ pc = [nb \in Notebooks |-> 1]
    /\ ns = [nb \in Notebooks |-> {}]
    /\ status = [nb \in Notebooks |-> "ok"]
    /\ made = [nb \in Notebooks |-> {}]
    /\ consumed = [nb \in Notebooks |-> {}]
    /\ history = [nb \in Notebooks |-> <<>>]
    /\ called = [nb \in Notebooks |-> NoCall]
    /\ output = [nb \in Notebooks |-> NoOutput]
    /\ nelec = [nb \in Notebooks |-> <<0, 0>>]
    /\ val = [nb \in Notebooks |-> NoValues]
    /\ args = [nb \in Notebooks |-> {}]

\* A cell other than the inversion runs; a name it reads that no earlier
\* cell has bound stops the run with a NameError.
RunCell(nb) ==
    /\ Pending(nb)
    /\ LET c == Current(nb) IN
        /\ c.stage # "reconstruction" \/ ~(c.reads \subseteq ns[nb])
        /\ IF c.reads \subseteq ns[nb]
             THEN /\ Bind(nb, c)
                  /\ Evaluate(nb, c)
                  /\ history' = [history EXCEPT ![nb] = Append(@, c.stage)]
                  /\ UNCHANGED <<status, consumed, called, output>>
             ELSE /\ status' = [status EXCEPT ![nb] = "NameError"]
                  /\ UNCHANGED <<pc, ns, made, consumed, history, called, output,
                                 nelec, val, args>>

\* invert(...) is handed the inverter and its arguments, and returns.
InvertReturns(nb) ==
    /\ Pending(nb)
    /\ LET c == Current(nb) IN
        /\ c.stage = "reconstruction"
        /\ c.reads \subseteq ns[nb]
        /\ consumed' = [consumed EXCEPT ![nb] = @ \cup c.reads]
        /\ history' = [history EXCEPT ![nb] = Append(@, c.stage)]
        /\ called' = [called EXCEPT ![nb] = InvertCall(nb)]
        /\ output' = [output EXCEPT ![nb] = Recorded(nb)]
        /\ Bind(nb, c)
        /\ UNCHANGED <<status, nelec, val, args>>

\* invert(...) is handed the inverter and its arguments, and raises: the
\* run of the notebook stops at this cell.  The Wu-Yang notebooks record
\* that their call returned.
InvertRaises(nb) ==
    /\ Pending(nb)
    /\ Recorded(nb) = NoOutput
    /\ LET c == Current(nb) IN
        /\ c.stage = "reconstruction"
        /\ c.reads \subseteq ns[nb]
        /\ consumed' = [consumed EXCEPT ![nb] = @ \cup c.reads]
        /\ history' = [history EXCEPT ![nb] = Append(@, c.stage)]
        /\ called' = [called EXCEPT ![nb] = InvertCall(nb)]
        /\ status' = [status EXCEPT ![nb] = "raised"]
        /\ UNCHANGED <<pc, ns, made, output, nelec, val, args>>

Next ==
    \E nb \in Notebooks :
        \/ RunCell(nb)
        \/ InvertReturns(nb)
        \/ InvertRaises(nb)

Spec == Init /\ [][Next]_vars

TypeOK ==
    /\ \A nb \in Notebooks :
        /\ pc[nb] \in 1..(Len(Cells(nb)) + 1)
        /\ ns[nb] \subseteq Names
        /\ status[nb] \in {"ok", "NameError", "raised"}
        /\ made[nb] \subseteq Names \X Stages
        /\ consumed[nb] \subseteq Names
        /\ nelec[nb] \in (0..MaxSpin) \X (0..MaxSpin)
        /\ DOMAIN val[nb] = ValueNames
        /\ args[nb] \subseteq Names \X Names

(***************************************************************************)
(* Data flow between the steps.                                            *)
(***************************************************************************)
Rank(stage) ==
    CASE stage = "reference"      -> 1
      [] stage = "reconstruction" -> 2
      [] stage = "reporting"      -> 3
      [] OTHER                    -> 0

Ran(nb, stage) == \E i \in DOMAIN history[nb] : history[nb][i] = stage

\* The steps a notebook has run so far follow one another in the order
\* reference data, reconstruction, reporting.
Linear(nb) ==
    /\ \A i, j \in DOMAIN history[nb] :
          (i < j /\ history[nb][i] \in Steps /\ history[nb][j] \in Steps)
              => Rank(history[nb][i]) <= Rank(history[nb][j])
    /\ Ran(nb, "reconstruction") => Ran(nb, "reference")
    /\ Ran(nb, "reporting") => Ran(nb, "reconstruction")

\* What a reporting cell has bound so far, and what of it invert was handed.
Reported(nb) == {n \in Names : <<n, "reporting">> \in made[nb]}

FromReporting(nb) == consumed[nb] \cap Reported(nb)

PlottingGrid == {"x", "y", "z", "grid", "shape"}

\* C10, as stated: in every notebook the reference-data step precedes the
\* reconstruction step, which precedes the reporting step, and invert is
\* handed nothing a reporting cell produced.
C10_LinearNoFeedback ==
    \A nb \in Notebooks : Linear(nb) /\ FromReporting(nb) = {}

\* C10, amended: the two Wu-Yang notebooks run reference data, inversion,
\* reporting in that order and their invert is handed nothing a reporting
\* cell produced.  The mRKS notebook defines its plotting grid before the
\* inversion and hands it to invert (vxc_grid=grid): the grid is all that
\* reporting has produced when invert starts and the only reporting product
\* invert is handed.  In every notebook the inversion follows the reference
\* data.
C10_DataFlow ==
    /\ \A nb \in WuYangNotebooks : Linear(nb) /\ FromReporting(nb) = {}
    /\ \A nb \in Notebooks :
          /\ Ran(nb, "reconstruction") => Ran(nb, "reference")
          /\ ~Ran(nb, "reconstruction") => Reported(nb) \subseteq PlottingGrid
          /\ \A i, j \in DOMAIN history[nb] :
                (i < j /\ history[nb][i] = "reconstruction")
                    => history[nb][j] \in {"reporting", "none"}
    /\ FromReporting("mrks") \subseteq {"grid"}

\* The mRKS notebook has run to its plot, having handed its plotting grid
\* to invert.
C10_Witness ==
    /\ status["mrks"] = "ok" /\ "fig" \in ns["mrks"]
    /\ Ran("mrks", "reconstruction")
    /\ FromReporting("mrks") = {"grid"}

(***************************************************************************)
(* The recorded Wu-Yang runs.                                              *)
(***************************************************************************)
\* The scenario: one Be atom, Wu-Yang, guide Fermi-Amaldi, potential basis
\* (aug-cc-pvqz) larger than the orbital basis (aug-cc-pvtz).
BeScenario(nb) ==
    /\ SystemOf(nb).atoms = <<"Be">>
    /\ SystemOf(nb).basis = "aug-cc-pvtz" /\ SystemOf(nb).pbs = "aug-cc-pvqz"
    /\ Zeta(SystemOf(nb).pbs) > Zeta(SystemOf(nb).basis)
    /\ called[nb].method = "WuYang"
    /\ <<"guide_components", "fermi_amaldi">> \in called[nb].kwargs

\* C11: once invert has been called in the Be scenario, the call has
\* returned (v_pbs is bound, the run goes on) and its output reports success
\* after fewer than 10 iterations with a gradient norm below 1e-3.
C11_BeConverges ==
    \A nb \in Notebooks :
        BeScenario(nb) =>
            /\ status[nb] = "ok" /\ "inv.v_pbs" \in ns[nb]
            /\ output[nb].stdout = "Optimization Successful"
            /\ output[nb].nit < 10
            /\ RLess(output[nb].grad, Rat(1, 1000))

\* The recorded Be run of the PySCF notebook has been made.
C11_Witness ==
    /\ BeScenario("pyscf")
    /\ output["pyscf"] = PyscfRecorded /\ output["pyscf"].nit = 2

(***************************************************************************)
(* The method and its options.                                             *)
(***************************************************************************)
Methods == {"WuYang", "mRKS"}

MrksOnly == {"frac_old", "init", "sing"}

Keys(call) == {kv[1] : kv \in call.kwargs}

\* C16: every invert call names one of the two methods; the damping factor,
\* the initial-guess functional and the singularity thresholds are handed
\* to the mRKS call and to no Wu-Yang call, which is handed the guide
\* potential only.
C16_MethodOptions ==
    \A nb \in Notebooks :
        called[nb] # NoCall =>
            /\ called[nb].method \in Methods
            /\ Keys(called[nb]) \cap MrksOnly # {} => called[nb].method = "mRKS"
            /\ called[nb].method = "WuYang" => Keys(called[nb]) = {"guide_components"}
            /\ called[nb].method = "mRKS" => MrksOnly \subseteq Keys(called[nb])

\* The Wu-Yang call of the Psi4 notebook has been made.
C16_Witness ==
    /\ called["psi4"].method = "WuYang"
    /\ Keys(called["psi4"]) = {"guide_components"}

(***************************************************************************)
(* The exchange-correlation potential of the Wu-Yang notebooks.            *)
(***************************************************************************)
ArgsOf(nb, n) == {p[2] : p \in {q \in args[nb] : q[1] = n}}

GridOf(nb, n) == ArgsOf(nb, n) \cap {"grid", "rectangular"}

\* C20: in the Wu-Yang notebooks vxc is vFA + vrest - vH with
\* vFA = (1 - 1/(nalpha + nbeta)) * vH, where vH is evaluated from inv.Dt,
\* the target density of the inverter that was handed to invert, vrest from
\* the inverted inv.v_pbs, both on the same grid; hence
\* vxc = vrest - vH/(nalpha + nbeta) at every grid point.
C20_VxcFormula ==
    \A nb \in WuYangNotebooks :
        "vxc" \in ns[nb] =>
            LET n == nelec[nb][1] + nelec[nb][2]
                v == val[nb]
            IN  /\ ArgsOf(nb, "vxc") = {"vFA", "vrest", "vH"}
                /\ ArgsOf(nb, "vFA") = {"inv", "vH"}
                /\ "inv.Dt" \in ArgsOf(nb, "vH")
                /\ <<"inv.Dt", "reference">> \in made[nb] /\ "inv" \in consumed[nb]
                /\ "inv.v_pbs" \in ArgsOf(nb, "vrest")
                /\ <<"inv.v_pbs", "reconstruction">> \in made[nb]
                /\ GridOf(nb, "vH") = GridOf(nb, "vrest") /\ GridOf(nb, "vH") # {}
                /\ \A g \in Points :
                      /\ REq(v["vFA"][g], RMul(Rat(n - 1, n), v["vH"][g]))
                      /\ REq(v["vxc"][g], RSub(v["vrest"][g], RDiv(v["vH"][g], n)))

\* The Psi4 notebook has computed vxc for four electrons from potentials
\* that do not vanish.
C20_Witness ==
    /\ "vxc" \in ns["psi4"]
    /\ nelec["psi4"] = <<2, 2>>
    /\ \E g \in Points : val["psi4"]["vH"][g].num # 0 /\ val["psi4"]["vrest"][g].num # 0

(***************************************************************************)
(* Initialization of the inverter.                                         *)
(***************************************************************************)
\* The statements of the reference cell that set the inverter up.
PyscfSetup == {"Inverter", "set_system", "Dt", "ct", "et"}

Psi4Setup == {"from_wfn"}

MrksSetup == {"from_wfn"}

Setup(nb) ==
    CASE nb = "pyscf" -> PyscfSetup
      [] nb = "psi4"  -> Psi4Setup
      [] nb = "mrks"  -> MrksSetup

\* The name of the inverter, and of the result the later cells read from it.
Inverter(nb) == IF nb = "mrks" THEN "inverter" ELSE "inv"

Result(nb) == IF nb = "mrks" THEN "inverter.grid.vxc" ELSE "inv.v_pbs"

\* The inverter is bound by the reference cell, either by from_wfn or by
\* the constructor, set_system and the assignments of Dt, ct and et.
Initialized(nb) ==
    /\ <<Inverter(nb), "reference">> \in made[nb]
    /\ \/ "from_wfn" \in Setup(nb)
       \/ /\ {"Inverter", "set_system", "Dt", "ct", "et"} \subseteq Setup(nb)
          /\ {"inv.Dt", "inv.ct", "inv.et"} \subseteq ns[nb]

\* The invert cell is the next to run.
AtInvert(nb) == Pending(nb) /\ Current(nb).stage = "reconstruction"

Returned(nb) ==
    /\ called[nb] # NoCall /\ status[nb] = "ok"
    /\ <<Result(nb), "reconstruction">> \in made[nb]

\* C21: in every notebook run top to bottom, the inverter is fully set up
\* (by set_system and the Dt, ct, et assignments, or by from_wfn) when the
\* invert cell is reached and when invert is called, no cell reads a name
\* that is not bound yet, and whatever is computed from the result of the
\* inversion (v_pbs or grid.vxc) is computed after invert has returned.
C21_InitializedBeforeInvert ==
    \A nb \in Notebooks :
        /\ status[nb] # "NameError"
        /\ (AtInvert(nb) \/ called[nb] # NoCall) => Initialized(nb)
        /\ \A p \in args[nb] : p[2] = Result(nb) => Returned(nb)

\* The PySCF notebook has set up its inverter statement by statement,
\* called invert and computed vrest from inv.v_pbs.
C21_Witness ==
    /\ called["pyscf"] # NoCall /\ Initialized("pyscf")
    /\ <<"vrest", "inv.v_pbs">> \in args["pyscf"]

====
